---- MODULE Spec2Model ----
(***************************************************************************)
(* Model of the monetary value parser parseMoney (parse_money.js and its   *)
(* copy inside n8n_parse_money.js).  A JS string is a sequence of          *)
(* one-character strings; a JS value is a record [type, chars].  The       *)
(* workflow node of n8n_parse_money.js and the simple variant parseBudget  *)
(* are the other callers and entry points.                                 *)
(***************************************************************************)
EXTENDS Integers, Sequences, FiniteSets

VARIABLES moneyString, pc, trimmed, cleanedText, decimalSeparator,
          thousandSeparator, integerPart, decimalPart, isNegative,
          result, error, caller, budgetString, output, budgetResult

vars == <<moneyString, pc, trimmed, cleanedText, decimalSeparator,
          thousandSeparator, integerPart, decimalPart, isNegative,
          result, error, caller, budgetString, output, budgetResult>>

(***************************************************************************)
(* Character classes of the regular expressions                            *)
(***************************************************************************)
\* JS null / "no value"
Null == "null"

\* \d
Digits == {"0", "1", "2", "3", "4", "5", "6", "7", "8", "9"}

\* [A-Z] under the i flag
Letters ==
    {"A", "B", "C", "D", "E", "F", "G", "H", "I", "J", "K", "L", "M",
     "N", "O", "P", "Q", "R", "S", "T", "U", "V", "W", "X", "Y", "Z",
     "a", "b", "c", "d", "e", "f", "g", "h", "i", "j", "k", "l", "m",
     "n", "o", "p", "q", "r", "s", "t", "u", "v", "w", "x", "y", "z"}

\* \s and the characters String.prototype.trim removes
Whitespace == {" ", "\t"}

\* the character class of the currency symbol regex (three characters the
\* lexer does not accept are written by their code point)
CurrencySymbols ==
    {"$", "€", "£", "¥", "₹", "₽", "₱", "₩", "₪", "₴", "₦", "R", "r",
     "₨", "₵", "₲", "₸", "₺", "₼", "₾", "₿", "¢", "U+0E3F", "₡", "₢", "₣",
     "₤", "₥", "₧", "₫", "₭", "₮", "₯", "₰", "₳", "₶", "₷", "₻",
     "﷼", "U+FE69", "U+FF04", "￠", "￡", "￥", "￦"}

(***************************************************************************)
(* String primitives                                                       *)
(***************************************************************************)
RECURSIVE TrimLeft(_)
TrimLeft(s) ==
    IF s # <<>> /\ Head(s) \in Whitespace THEN TrimLeft(Tail(s)) ELSE s

RECURSIVE TrimRight(_)
TrimRight(s) ==
    IF s # <<>> /\ s[Len(s)] \in Whitespace
    THEN TrimRight(SubSeq(s, 1, Len(s) - 1))
    ELSE s

\* String.prototype.trim
Trim(s) == TrimRight(TrimLeft(s))

\* String.prototype.lastIndexOf, 0-based, -1 when absent
LastIndexOf(s, c) ==
    LET idx == {i \in 1..Len(s) : s[i] = c}
    IN  IF idx = {} THEN -1
        ELSE (CHOOSE i \in idx : \A j \in idx : j <= i) - 1

\* String.prototype.indexOf, 0-based, -1 when absent
IndexOf(s, c) ==
    LET idx == {i \in 1..Len(s) : s[i] = c}
    IN  IF idx = {} THEN -1
        ELSE (CHOOSE i \in idx : \A j \in idx : i <= j) - 1

\* String.prototype.substring(from), 0-based
Substring(s, from) == SubSeq(s, from + 1, Len(s))

\* String.prototype.includes for a single character
Includes(s, c) == \E i \in 1..Len(s) : s[i] = c

\* s.replace(/[set]/g, '')
RemoveAll(s, set) == SelectSeq(s, LAMBDA ch : ch \notin set)

\* String.prototype.split on a single character
RECURSIVE Split(_, _)
Split(s, c) ==
    LET i == IndexOf(s, c)
    IN  IF i = -1 THEN <<s>>
        ELSE <<SubSeq(s, 1, i)>> \o Split(Substring(s, i + 1), c)

\* Array.prototype.join('')
RECURSIVE Join(_)
Join(parts) ==
    IF parts = <<>> THEN <<>> ELSE Head(parts) \o Join(Tail(parts))

\* /^\d*$/.test(s)
IsDigits(s) == \A i \in 1..Len(s) : s[i] \in Digits

DigitVal(c) ==
    CASE c = "0" -> 0 [] c = "1" -> 1 [] c = "2" -> 2 [] c = "3" -> 3
      [] c = "4" -> 4 [] c = "5" -> 5 [] c = "6" -> 6 [] c = "7" -> 7
      [] c = "8" -> 8 [] c = "9" -> 9

DigitChar(d) ==
    CASE d = 0 -> "0" [] d = 1 -> "1" [] d = 2 -> "2" [] d = 3 -> "3"
      [] d = 4 -> "4" [] d = 5 -> "5" [] d = 6 -> "6" [] d = 7 -> "7"
      [] d = 8 -> "8" [] d = 9 -> "9"

\* parseInt on a non-empty string of decimal digits
RECURSIVE ParseInt(_)
ParseInt(s) ==
    IF s = <<>> THEN 0
    ELSE ParseInt(SubSeq(s, 1, Len(s) - 1)) * 10 + DigitVal(s[Len(s)])

\* Number.prototype.toString for a non-negative integer
RECURSIVE ToString(_)
ToString(n) ==
    IF n < 10 THEN <<DigitChar(n)>>
    ELSE ToString(n \div 10) \o <<DigitChar(n % 10)>>

\* s.padStart(2, '0')
PadStart2(s) == IF Len(s) < 2 THEN <<"0">> \o s ELSE s

(***************************************************************************)
(* The stages of parseMoney                                                *)
(***************************************************************************)
\* a JS string value and its characters
Str(s) == [type |-> "string", chars |-> s]

\* trimmed.replace(/^[$...]/g, ''): the pattern is anchored, so at most the
\* first character is removed
StripSymbol(s) ==
    IF s # <<>> /\ Head(s) \in CurrencySymbols THEN Tail(s) ELSE s

\* .replace(/^[A-Z]{3}\s*/i, '')
StripLeadingCode(s) ==
    IF Len(s) >= 3 /\ \A i \in 1..3 : s[i] \in Letters
    THEN TrimLeft(SubSeq(s, 4, Len(s)))
    ELSE s

\* .replace(/\s*[A-Z]{3}$/i, '')
StripTrailingCode(s) ==
    IF Len(s) >= 3 /\ \A i \in (Len(s) - 2)..Len(s) : s[i] \in Letters
    THEN TrimRight(SubSeq(s, 1, Len(s) - 3))
    ELSE s

\* withoutCurrency, withoutCode, cleanedText
CleanText(t) == Trim(StripTrailingCode(StripLeadingCode(StripSymbol(t))))

\* no inference: '.' is always the decimal separator
InferSeparatorsDotDecimal(text) ==
    [decimalSeparator |-> ".", thousandSeparator |-> ","]

\* the single-separator tests made before the position comparison
InferSeparatorsSingleFirst(text) ==
    LET lastDotIndex   == LastIndexOf(text, ".")
        lastCommaIndex == LastIndexOf(text, ",")
        seps(d, t)     == [decimalSeparator |-> d, thousandSeparator |-> t]
        after(i)       == Len(Substring(text, i + 1))
    IN  IF lastDotIndex = -1 /\ lastCommaIndex = -1 THEN seps(Null, Null)
        ELSE IF lastCommaIndex = -1
             THEN IF after(lastDotIndex) = 3 THEN seps(Null, ".")
                  ELSE seps(".", ",")
        ELSE IF lastDotIndex = -1
             THEN IF after(lastCommaIndex) = 2 THEN seps(",", ".")
                  ELSE IF after(lastCommaIndex) = 3 THEN seps(Null, ",")
                  ELSE seps(".", ",")
        ELSE IF lastCommaIndex > lastDotIndex THEN seps(",", ".")
        ELSE seps(".", ",")

\* the if / else-if chain that assigns decimalSeparator and thousandSeparator
InferSeparators(text) ==
    LET lastDotIndex   == LastIndexOf(text, ".")
        lastCommaIndex == LastIndexOf(text, ",")
        seps(d, t)     == [decimalSeparator |-> d, thousandSeparator |-> t]
    IN  IF lastCommaIndex > lastDotIndex THEN seps(",", ".")
        ELSE IF lastDotIndex > lastCommaIndex THEN seps(".", ",")
        ELSE IF lastDotIndex = -1 /\ lastCommaIndex = -1 THEN seps(Null, Null)
        ELSE IF lastDotIndex # -1 /\ lastCommaIndex = -1
             THEN LET afterLastDot == Substring(text, lastDotIndex + 1)
                  IN  IF Len(afterLastDot) = 2 THEN seps(".", ",")
                      ELSE IF Len(afterLastDot) = 3 THEN seps(Null, ".")
                      ELSE seps(".", ",")
        ELSE IF lastCommaIndex # -1 /\ lastDotIndex = -1
             THEN LET afterLastComma == Substring(text, lastCommaIndex + 1)
                  IN  IF Len(afterLastComma) = 2 THEN seps(",", ".")
                      ELSE IF Len(afterLastComma) = 3 THEN seps(Null, ",")
                      ELSE seps(".", ",")
        ELSE seps(".", ",")

\* everything but digits and sign markers removed, instead of the spaces
SplitPartsDigitsOnly(text, dec, thou) ==
    LET parts == IF dec # Null /\ Includes(text, dec)
                 THEN LET p == Split(text, dec)
                      IN  [i |-> p[1], d |-> Join(Tail(p))]
                 ELSE [i |-> text, d |-> <<"0", "0">>]
    IN  [integerPart |->
             SelectSeq(parts.i, LAMBDA ch : ch \in Digits \cup {"-", "(", ")"}),
         decimalPart |-> SelectSeq(parts.d, LAMBDA ch : ch \in Digits)]

\* integerPart and decimalPart: split, thousand separators and spaces removed
SplitParts(text, dec, thou) ==
    LET parts == IF dec # Null /\ Includes(text, dec)
                 THEN LET p == Split(text, dec)
                      IN  [i |-> p[1], d |-> Join(Tail(p))]
                 ELSE [i |-> text, d |-> <<"0", "0">>]
        noThou == IF thou # Null THEN RemoveAll(parts.i, {thou}) ELSE parts.i
    IN  [integerPart |-> RemoveAll(noThou, Whitespace),
         decimalPart |-> RemoveAll(parts.d, Whitespace)]

\* integerPart.includes('-') || integerPart.includes('(')
DetectNegative(ip) == Includes(ip, "-") \/ Includes(ip, "(")

\* only the minus sign removed, parentheses kept
StripSignMinusOnly(ip) == RemoveAll(ip, {"-"})

\* integerPart.replace(/[-\(\)]/g, '')
StripSign(ip) == RemoveAll(ip, {"-", "(", ")"})

\* rounding up above 5 only
RoundsUpAbove5(extraDigits) ==
    extraDigits[1] \in Digits /\ DigitVal(extraDigits[1]) > 5

\* the rounding test on the third decimal digit
RoundsUp(extraDigits) ==
    extraDigits[1] \in Digits /\ DigitVal(extraDigits[1]) >= 5

\* a one-digit decimal part padded on the wrong side
PadDecimalLeft(dp) == <<"0">> \o dp

\* a one-digit decimal part: decimalPart + '0'
PadDecimal(dp) == dp \o <<"0">>

\* empty integer part -> "0"; decimal part padded or rounded to 2 digits
NormalizeParts(ip, dp) ==
    LET i0 == IF ip = <<>> THEN <<"0">> ELSE ip
    IN  IF dp = <<>> THEN [integerPart |-> i0, decimalPart |-> <<"0", "0">>]
        ELSE IF Len(dp) = 1
             THEN [integerPart |-> i0, decimalPart |-> PadDecimal(dp)]
        ELSE IF Len(dp) > 2
             THEN LET extraDigits == Substring(dp, 2)
                      base        == SubSeq(dp, 1, 2)
                  IN  IF RoundsUp(extraDigits)
                      THEN LET decimalValue == ParseInt(base) + 1
                           IN  IF decimalValue >= 100
                               THEN [integerPart |-> ToString(ParseInt(i0) + 1),
                                     decimalPart |-> <<"0", "0">>]
                               ELSE [integerPart |-> i0,
                                     decimalPart |->
                                         PadStart2(ToString(decimalValue))]
                      ELSE [integerPart |-> i0, decimalPart |-> base]
        ELSE [integerPart |-> i0, decimalPart |-> dp]

\* parseInt(integerPart + decimalPart), negated when isNegative
Combine(ip, dp, neg) ==
    LET r == ParseInt(ip \o dp) IN IF neg THEN -r ELSE r

\* outcomes of a call: a returned number or a thrown Error
Return(v) == [ok |-> TRUE, value |-> v, error |-> Null]
Throw(msg) == [ok |-> FALSE, value |-> Null, error |-> msg]

\* the emptiness test made on the untrimmed string
InputErrorNoTrim(v) ==
    IF v.type # "string" THEN "Input must be a string"
    ELSE IF v.chars = <<>> THEN "Empty money string"
    ELSE Null

\* the two guards at the head of parseMoney: the message thrown, or Null
InputError(v) ==
    IF v.type # "string" THEN "Input must be a string"
    ELSE IF Trim(v.chars) = <<>> THEN "Empty money string"
    ELSE Null

\* parseMoney as a function of its argument
ParseMoney(v) ==
    IF InputError(v) # Null THEN Throw(InputError(v))
    ELSE LET text  == CleanText(Trim(v.chars))
             seps  == InferSeparators(text)
             parts == SplitParts(text, seps.decimalSeparator,
                                 seps.thousandSeparator)
             neg   == DetectNegative(parts.integerPart)
             ip    == StripSign(parts.integerPart)
         IN  IF ~IsDigits(ip)
             THEN Throw("Invalid characters in integer part")
             ELSE IF ~IsDigits(parts.decimalPart)
             THEN Throw("Invalid characters in decimal part")
             ELSE LET n == NormalizeParts(ip, parts.decimalPart)
                  IN  Return(Combine(n.integerPart, n.decimalPart, neg))

(***************************************************************************)
(* parseBudget, the simple variant                                         *)
(***************************************************************************)
\* no call of parseBudget has ended
NoOutcome == [ok |-> FALSE, value |-> Null, error |-> Null]

\* budgetString.replace(/[^\d.,-]/g, '')
KeepNumeric(s) == SelectSeq(s, LAMBDA ch : ch \in Digits \cup {".", ",", "-"})

\* s.replace(',', '.'): the first comma only
ReplaceFirstComma(s) ==
    LET i == IndexOf(s, ",")
    IN  IF i = -1 THEN s
        ELSE SubSeq(s, 1, i) \o <<".">> \o Substring(s, i + 1)

\* a tail of up to 3 characters taken for a decimal part
IsDecimalTailUpTo3(after) == Len(after) <= 3

\* after.length <= 2: the tail after the last separator is a decimal part
IsDecimalTail(after) == Len(after) <= 2

\* the if / else-if chain that rewrites cleaned into a float literal
NormalizeBudget(cleaned) ==
    LET lastDot   == LastIndexOf(cleaned, ".")
        lastComma == LastIndexOf(cleaned, ",")
    IN  IF lastComma > lastDot
        THEN IF IsDecimalTail(Substring(cleaned, lastComma + 1))
             THEN ReplaceFirstComma(RemoveAll(cleaned, {"."}))
             ELSE RemoveAll(cleaned, {","})
        ELSE IF lastDot > lastComma
        THEN IF IsDecimalTail(Substring(cleaned, lastDot + 1))
             THEN RemoveAll(cleaned, {","})
             ELSE RemoveAll(cleaned, {"."})
        ELSE IF lastComma # -1
        THEN IF IsDecimalTail(Substring(cleaned, lastComma + 1))
             THEN ReplaceFirstComma(cleaned)
             ELSE RemoveAll(cleaned, {","})
        ELSE IF lastDot # -1
        THEN IF ~IsDecimalTail(Substring(cleaned, lastDot + 1))
             THEN RemoveAll(cleaned, {"."})
             ELSE cleaned
        ELSE cleaned

\* the longest prefix of s made of digits
RECURSIVE DigitPrefix(_)
DigitPrefix(s) ==
    IF s # <<>> /\ Head(s) \in Digits
    THEN <<Head(s)>> \o DigitPrefix(Tail(s))
    ELSE <<>>

\* parseFloat on a string of digits, '.', ',' and '-': the longest prefix
\* [-] digits [. digits] is read; without any digit the value is NaN
ParseFloat(s) ==
    LET neg  == s # <<>> /\ Head(s) = "-"
        body == IF neg THEN Tail(s) ELSE s
        int  == DigitPrefix(body)
        rest == Substring(body, Len(int))
        frac == IF rest # <<>> /\ Head(rest) = "."
                THEN DigitPrefix(Tail(rest)) ELSE <<>>
    IN  [nan |-> int = <<>> /\ frac = <<>>, neg |-> neg,
         int |-> ParseInt(int), frac |-> frac]

\* Math.round: floor(x + 0.5), so a tie goes up, also for negative x
MathRound(x) ==
    LET half  == x.frac # <<>> /\ DigitVal(x.frac[1]) >= 5
        above == /\ half
                 /\ \/ DigitVal(x.frac[1]) > 5
                    \/ \E i \in 2..Len(x.frac) : x.frac[i] # "0"
    IN  IF x.neg THEN 0 - (x.int + (IF above THEN 1 ELSE 0))
        ELSE x.int + (IF half THEN 1 ELSE 0)

\* parseBudget as a function of its argument
ParseBudget(v) ==
    IF v.type # "string" \/ Trim(v.chars) = <<>>
    THEN Throw("Invalid budget string")
    ELSE LET value == ParseFloat(NormalizeBudget(KeepNumeric(v.chars)))
         IN  IF value.nan THEN Throw("Could not parse budget value")
             ELSE Return(MathRound(value))

(***************************************************************************)
(* Bounds and the arguments the callers pass                               *)
(***************************************************************************)
\* longest free-form string
MaxLen == 3
\* most digits before the separator of an ungrouped amount
MaxHead == 2
\* most three-digit thousands groups after the leading group
MaxGroups == 1
\* most digits after the decimal separator
MaxDec == 4

\* all strings over alphabet d of length lo..hi
Runs(d, lo, hi) == UNION {[1..n -> d] : n \in lo..hi}

RECURSIVE Grouped(_, _)
\* n three-digit groups, each preceded by the separator sep
Grouped(sep, n) ==
    IF n = 0 THEN {<<>>}
    ELSE {<<sep>> \o g \o rest :
            g \in [1..3 -> {"0", "5"}], rest \in Grouped(sep, n - 1)}

Other(sep) == IF sep = "," THEN "." ELSE ","

\* free-form text
ShortInputs ==
    Runs({"5", ".", ",", "-", "(", ")", " ", "$", "x"}, 0, MaxLen)

\* amounts with thousands groups, with or without a 2-digit decimal part
GroupedInputs ==
    UNION { {lead \o head \o groups \o tail :
                lead \in {<<>>, <<"$">>, <<"€">>},
                head \in {<<"1">>, <<"9">>, <<"1", "5">>},
                groups \in UNION {Grouped(sep, n) : n \in 1..MaxGroups},
                tail \in {<<>>} \cup
                         {<<Other(sep)>> \o d : d \in [1..2 -> {"0", "5", "9"}]}}
            : sep \in {",", "."} }

\* ungrouped amounts with any number of decimal digits
DecimalInputs ==
    {lead \o head \o tail :
        lead \in {<<>>, <<"-">>, <<"$", "-">>},
        head \in Runs({"1", "9"}, 1, MaxHead),
        tail \in {<<>>} \cup
                 {<<sep>> \o d : sep \in {".", ","},
                                 d \in Runs({"0", "5", "9"}, 0, MaxDec)}}

\* values that are not strings
NonStrings ==
    {[type |-> "number", chars |-> <<>>], [type |-> "undefined", chars |-> <<>>]}

Inputs ==
    {Str(s) : s \in ShortInputs \cup GroupedInputs \cup DecimalInputs}
        \cup NonStrings

(***************************************************************************)
(* The state machine: one call of parseMoney, statement by statement       *)
(***************************************************************************)
\* no argument: no call is in progress
NoCall == [type |-> "none", chars |-> <<>>]

\* JS null and JS numbers as field values of the node's output
JsNull == [type |-> "null", value |-> 0]
Num(n) == [type |-> "number", value |-> n]

\* JS null where a string is expected
NullText == [type |-> "null", chars |-> <<>>]

\* the node has not built an output
NoOutput ==
    [budgetOriginal |-> NoCall, budgetParsed |-> JsNull,
     budgetFormatted |-> NullText, parseError |-> Null]

\* if (budgetString): undefined and '' are falsy; the number is non-zero
Truthy(v) == (v.type = "string" /\ v.chars # <<>>) \/ v.type = "number"

\* the output object before the parse
InitialOutput(b) ==
    [budgetOriginal |-> b, budgetParsed |-> JsNull,
     budgetFormatted |-> NullText, parseError |-> Null]

\* the cents printed without zero padding
FormatNoPad(v) ==
    LET abs == IF v < 0 THEN 0 - v ELSE v
    IN  (IF v < 0 THEN <<"-">> ELSE <<>>)
            \o ToString(abs \div 100) \o <<".">> \o ToString(abs % 100)

\* sign + dollars + '.' + cents padded to 2 digits
Format(v) ==
    LET abs     == IF v < 0 THEN 0 - v ELSE v
        dollars == abs \div 100
        cents   == abs % 100
        sign    == IF v < 0 THEN <<"-">> ELSE <<>>
    IN  sign \o ToString(dollars) \o <<".">> \o PadStart2(ToString(cents))

\* the try branch after parseMoney returned
OnSuccess(out, v) ==
    [out EXCEPT !.budgetParsed = Num(v), !.budgetFormatted = Str(Format(v))]

\* an error branch that forgets the message
OnErrorDropsMessage(out, msg) == out

\* the catch branch and the missing-field branch
OnError(out, msg) == [out EXCEPT !.parseError = msg]

\* the locals of a call before its first statement
Frame(v, at) ==
    /\ moneyString = v
    /\ pc = at
    /\ trimmed = <<>>
    /\ cleanedText = <<>>
    /\ decimalSeparator = "."
    /\ thousandSeparator = ","
    /\ integerPart = <<>>
    /\ decimalPart = <<>>
    /\ isNegative = FALSE
    /\ result = Null
    /\ error = Null
    /\ caller = "none"
    /\ budgetString = NoCall
    /\ output = NoOutput
    /\ budgetResult = NoOutcome

\* the script is loaded and no call has been made
Init == Frame(NoCall, "idle")

\* the test loop or the line handler invokes parseMoney(v)
Call ==
    /\ pc = "idle"
    /\ \E v \in Inputs :
        /\ moneyString' = v
        /\ pc' = "start"
    /\ caller' = "main"
    /\ UNCHANGED <<budgetString, output, budgetResult>>
    /\ UNCHANGED <<trimmed, cleanedText, decimalSeparator, thousandSeparator,
                   integerPart, decimalPart, isNegative, result, error>>

\* typeof check, trim, empty check
CheckInput ==
    /\ pc = "start"
    /\ UNCHANGED <<caller, budgetString, output, budgetResult>>
    /\ IF InputError(moneyString) # Null
       THEN /\ error' = InputError(moneyString)
            /\ pc' = "thrown"
            /\ UNCHANGED trimmed
       ELSE /\ trimmed' = Trim(moneyString.chars)
            /\ pc' = "strip"
            /\ UNCHANGED error
    /\ UNCHANGED <<moneyString, cleanedText, decimalSeparator,
                   thousandSeparator, integerPart, decimalPart, isNegative,
                   result>>

\* currency symbol and currency code removal
StripCurrency ==
    /\ pc = "strip"
    /\ UNCHANGED <<caller, budgetString, output, budgetResult>>
    /\ cleanedText' = CleanText(trimmed)
    /\ pc' = "detect"
    /\ UNCHANGED <<moneyString, trimmed, decimalSeparator, thousandSeparator,
                   integerPart, decimalPart, isNegative, result, error>>

\* separator role inference
DetectSeparators ==
    /\ pc = "detect"
    /\ UNCHANGED <<caller, budgetString, output, budgetResult>>
    /\ decimalSeparator' = InferSeparators(cleanedText).decimalSeparator
    /\ thousandSeparator' = InferSeparators(cleanedText).thousandSeparator
    /\ pc' = "split"
    /\ UNCHANGED <<moneyString, trimmed, cleanedText, integerPart,
                   decimalPart, isNegative, result, error>>

\* split into integer and decimal part, drop thousand separators and spaces
SplitText ==
    /\ pc = "split"
    /\ UNCHANGED <<caller, budgetString, output, budgetResult>>
    /\ LET p == SplitParts(cleanedText, decimalSeparator, thousandSeparator)
       IN  /\ integerPart' = p.integerPart
           /\ decimalPart' = p.decimalPart
    /\ pc' = "sign"
    /\ UNCHANGED <<moneyString, trimmed, cleanedText, decimalSeparator,
                   thousandSeparator, isNegative, result, error>>

\* sign detection and removal
HandleNegative ==
    /\ pc = "sign"
    /\ UNCHANGED <<caller, budgetString, output, budgetResult>>
    /\ isNegative' = DetectNegative(integerPart)
    /\ integerPart' = StripSign(integerPart)
    /\ pc' = "validate"
    /\ UNCHANGED <<moneyString, trimmed, cleanedText, decimalSeparator,
                   thousandSeparator, decimalPart, result, error>>

\* the two digit tests
ValidateDigits ==
    /\ pc = "validate"
    /\ UNCHANGED <<caller, budgetString, output, budgetResult>>
    /\ IF ~IsDigits(integerPart)
       THEN error' = "Invalid characters in integer part" /\ pc' = "thrown"
       ELSE IF ~IsDigits(decimalPart)
       THEN error' = "Invalid characters in decimal part" /\ pc' = "thrown"
       ELSE error' = error /\ pc' = "normalize"
    /\ UNCHANGED <<moneyString, trimmed, cleanedText, decimalSeparator,
                   thousandSeparator, integerPart, decimalPart, isNegative,
                   result>>

\* defaults, padding and rounding
NormalizeDigits ==
    /\ pc = "normalize"
    /\ UNCHANGED <<caller, budgetString, output, budgetResult>>
    /\ LET n == NormalizeParts(integerPart, decimalPart)
       IN  /\ integerPart' = n.integerPart
           /\ decimalPart' = n.decimalPart
    /\ pc' = "combine"
    /\ UNCHANGED <<moneyString, trimmed, cleanedText, decimalSeparator,
                   thousandSeparator, isNegative, result, error>>

\* the final parseInt and the return
CombineParts ==
    /\ pc = "combine"
    /\ UNCHANGED <<caller, budgetString, output, budgetResult>>
    /\ result' = Combine(integerPart, decimalPart, isNegative)
    /\ pc' = "returned"
    /\ UNCHANGED <<moneyString, trimmed, cleanedText, decimalSeparator,
                   thousandSeparator, integerPart, decimalPart, isNegative,
                   error>>

\* the caller has consumed the outcome (printed it, or caught the Error);
\* the frame is gone
Finish ==
    /\ pc \in {"returned", "thrown"}
    /\ caller = "main"
    /\ caller' = "none"
    /\ UNCHANGED <<budgetString, output, budgetResult>>
    /\ moneyString' = NoCall
    /\ pc' = "idle"
    /\ trimmed' = <<>>
    /\ cleanedText' = <<>>
    /\ decimalSeparator' = "."
    /\ thousandSeparator' = ","
    /\ integerPart' = <<>>
    /\ decimalPart' = <<>>
    /\ isNegative' = FALSE
    /\ result' = Null
    /\ error' = Null

(***************************************************************************)
(* The workflow node around parseMoney                                     *)
(***************************************************************************)
\* the node reads Answers.Budget, builds the output and, when the field is
\* truthy, calls parseMoney; otherwise it reports the missing field
NodeEnter ==
    /\ pc = "idle"
    /\ \E b \in Inputs :
        /\ budgetString' = b
        /\ IF Truthy(b)
           THEN /\ output' = InitialOutput(b)
                /\ moneyString' = b
                /\ pc' = "start"
           ELSE /\ output' = OnError(InitialOutput(b),
                                     "Budget field is missing or empty")
                /\ moneyString' = moneyString
                /\ pc' = "node_done"
    /\ caller' = "node"
    /\ budgetResult' = budgetResult
    /\ UNCHANGED <<trimmed, cleanedText, decimalSeparator, thousandSeparator,
                   integerPart, decimalPart, isNegative, result, error>>

\* the rest of the try block, or the catch block
NodeCollect ==
    /\ pc \in {"returned", "thrown"}
    /\ caller = "node"
    /\ output' = IF pc = "returned" THEN OnSuccess(output, result)
                 ELSE OnError(output, error)
    /\ pc' = "node_done"
    /\ UNCHANGED <<moneyString, trimmed, cleanedText, decimalSeparator,
                   thousandSeparator, integerPart, decimalPart, isNegative,
                   result, error, caller, budgetString, budgetResult>>

\* return output: the item is handed to the next node
NodeReturn ==
    /\ pc = "node_done"
    /\ moneyString' = NoCall
    /\ pc' = "idle"
    /\ trimmed' = <<>>
    /\ cleanedText' = <<>>
    /\ decimalSeparator' = "."
    /\ thousandSeparator' = ","
    /\ integerPart' = <<>>
    /\ decimalPart' = <<>>
    /\ isNegative' = FALSE
    /\ result' = Null
    /\ error' = Null
    /\ caller' = "none"
    /\ budgetString' = NoCall
    /\ output' = NoOutput
    /\ budgetResult' = budgetResult

(***************************************************************************)
(* Calls of parseBudget                                                    *)
(***************************************************************************)
\* the test loop, the line handler or the simple node calls parseBudget(v),
\* which returns or throws
BudgetCall ==
    /\ pc = "idle"
    /\ \E v \in Inputs :
        /\ budgetString' = v
        /\ budgetResult' = ParseBudget(v)
    /\ pc' = "budget_done"
    /\ caller' = "parseBudget"
    /\ UNCHANGED <<moneyString, trimmed, cleanedText, decimalSeparator,
                   thousandSeparator, integerPart, decimalPart, isNegative,
                   result, error, output>>

\* the caller has consumed the outcome of parseBudget
BudgetFinish ==
    /\ pc = "budget_done"
    /\ budgetString' = NoCall
    /\ budgetResult' = NoOutcome
    /\ pc' = "idle"
    /\ caller' = "none"
    /\ UNCHANGED <<moneyString, trimmed, cleanedText, decimalSeparator,
                   thousandSeparator, integerPart, decimalPart, isNegative,
                   result, error, output>>

Next ==
    \/ Call
    \/ CheckInput
    \/ StripCurrency
    \/ DetectSeparators
    \/ SplitText
    \/ HandleNegative
    \/ ValidateDigits
    \/ NormalizeDigits
    \/ CombineParts
    \/ Finish
    \/ NodeEnter
    \/ NodeCollect
    \/ NodeReturn
    \/ BudgetCall
    \/ BudgetFinish

Spec == Init /\ [][Next]_vars

\* the call has ended
Ended == pc \in {"returned", "thrown"}

\* the machine and the function agree on every argument
StepsAgree ==
    Ended => ParseMoney(moneyString) =
                 [ok |-> pc = "returned", value |-> result, error |-> error]

(***************************************************************************)
(* Reading an input string independently of the parser                     *)
(***************************************************************************)
\* the characters of the argument of the call in progress
Chars == moneyString.chars

\* the Error kinds of the specification and the messages they stand for
ErrorKind(msg) ==
    IF msg \in {"Input must be a string", "Empty money string"}
    THEN "EmptyInput"
    ELSE IF msg \in {"Invalid characters in integer part",
                     "Invalid characters in decimal part"}
    THEN "InvalidCharacters"
    ELSE Null

\* s without a leading currency sign
NoSymbol(s) ==
    IF s # <<>> /\ Head(s) \in {"$", "€", "£", "¥"} THEN Tail(s) ELSE s

\* s without a leading minus sign
NoMinus(s) == IF s # <<>> /\ Head(s) = "-" THEN Tail(s) ELSE s

\* -1 when the amount is written with a leading minus (after the symbol)
SignOf(s) ==
    IF NoSymbol(s) # <<>> /\ Head(NoSymbol(s)) = "-" THEN -1 ELSE 1

\* the digits of s read as one integer
DigitsValue(s) == ParseInt(SelectSeq(s, LAMBDA ch : ch \in Digits))

\* s with '.' and ',' exchanged
Swap(s) ==
    [i \in 1..Len(s) |->
        IF s[i] = "." THEN "," ELSE IF s[i] = "," THEN "." ELSE s[i]]

\* t is 1..3 digits followed by one or more groups of sep and 3 digits
IsGroupedInt(t, sep) ==
    LET parts == Split(t, sep)
    IN  /\ Len(parts) >= 2
        /\ Len(parts[1]) \in 1..3
        /\ \A k \in 2..Len(parts) : Len(parts[k]) = 3
        /\ \A k \in 1..Len(parts) : IsDigits(parts[k])

\* s is [symbol] grouped integer, dec, two digits
IsGroupedDecimal(s, thou, dec) ==
    LET t == NoSymbol(s)
    IN  /\ Len(t) >= 8
        /\ t[Len(t) - 2] = dec
        /\ IsDigits(SubSeq(t, Len(t) - 1, Len(t)))
        /\ IsGroupedInt(SubSeq(t, 1, Len(t) - 3), thou)

\* the minor units of a decimal part of at most two digits
Cents(f) ==
    IF Len(f) = 0 THEN 0
    ELSE IF Len(f) = 1 THEN 10 * DigitVal(f[1])
    ELSE 10 * DigitVal(f[1]) + DigitVal(f[2])

\* the minor units of a decimal part of any length, rounded on digit 3
RoundedCents(f) ==
    IF Len(f) <= 2 THEN Cents(f)
    ELSE Cents(SubSeq(f, 1, 2)) + (IF DigitVal(f[3]) >= 5 THEN 1 ELSE 0)

\* s is [-] digits [ '.' 0..2 digits ]
IsPlainDecimal(s) ==
    LET t == NoMinus(s)
        i == IndexOf(t, ".")
    IN  IF i = -1 THEN t # <<>> /\ IsDigits(t)
        ELSE /\ i >= 1
             /\ IsDigits(SubSeq(t, 1, i))
             /\ IsDigits(Substring(t, i + 1))
             /\ Len(t) - (i + 1) <= 2

\* s is [symbol] [-] text, the text made of digits and one or more sep only
IsOneKind(s, sep) ==
    LET t == NoMinus(NoSymbol(s))
    IN  /\ Includes(t, sep)
        /\ \A i \in 1..Len(t) : t[i] \in Digits \cup {sep}

\* the number of characters after the last sep
Trailing(s, sep) == Len(s) - LastIndexOf(s, sep) - 1

\* the integer digits and the decimal digits of a one-separator amount
IntDigits(s, sep) ==
    LET t == NoMinus(NoSymbol(s)) IN SubSeq(t, 1, IndexOf(t, sep))
DecDigits(s, sep) ==
    LET t == NoMinus(NoSymbol(s))
    IN  RemoveAll(Substring(t, IndexOf(t, sep) + 1), {sep})

(***************************************************************************)
(* C1                                                                      *)
(***************************************************************************)
\* C1: an amount with thousands groups and a 2-digit decimal part parses, in
\* US form (',' groups, '.' decimal) and in EU form ('.' groups, ',' decimal),
\* to its digits read as one integer: the later separator is the decimal one,
\* the other the thousands one, and the form with the separators exchanged
\* parses to the same value.
C1_SeparatorSymmetry ==
    \A dec \in {".", ","} :
        (Ended /\ IsGroupedDecimal(Chars, Other(dec), dec)) =>
            /\ pc = "returned"
            /\ decimalSeparator = dec
            /\ thousandSeparator = Other(dec)
            /\ result = DigitsValue(Chars)
            /\ ParseMoney(Str(Swap(Chars))) = Return(result)

\* the EU form of 1505.59 has been parsed
C1_Witness ==
    /\ pc = "returned"
    /\ Chars = <<"€", "1", ".", "5", "0", "5", ",", "5", "9">>
    /\ result = 150559

(***************************************************************************)
(* C2                                                                      *)
(***************************************************************************)
\* C2: an amount without decimal part whose digits are grouped by one kind of
\* separator, the last one followed by exactly 3 digits, parses to the
\* grouped integer times 100 (the separator is a thousands separator).
C2_GroupedIntegerTimes100 ==
    \A sep \in {".", ","} :
        (Ended /\ IsGroupedInt(NoSymbol(Chars), sep)) =>
            /\ pc = "returned"
            /\ result = DigitsValue(Chars) * 100

(***************************************************************************)
(* C3                                                                      *)
(***************************************************************************)
\* C3: a plain decimal string D ([-] digits [. 0..2 digits]) parses to
\* D * 100 exactly.
C3_PlainDecimalTimes100 ==
    (Ended /\ IsPlainDecimal(Chars)) =>
        /\ pc = "returned"
        /\ result = (IF Chars[1] = "-" THEN -1 ELSE 1) *
                    (IF IndexOf(Chars, ".") = -1
                     THEN DigitsValue(Chars) * 100
                     ELSE ParseInt(IntDigits(Chars, ".")) * 100
                              + Cents(DecDigits(Chars, ".")))

\* -9.5 has been parsed to -950
C3_Witness ==
    /\ pc = "returned"
    /\ Chars = <<"-", "9", ".", "5">>
    /\ result = -950

(***************************************************************************)
(* C4                                                                      *)
(***************************************************************************)
\* s is [symbol] '-' digit, followed by digits and separators
IsMinusAmount(s) ==
    LET t == NoSymbol(s)
    IN  /\ Len(t) >= 2
        /\ Head(t) = "-"
        /\ t[2] \in Digits
        /\ \A i \in 2..Len(t) : t[i] \in Digits \cup {".", ","}

\* "$-500.25" written as "$(500.25)" and as "($500.25)"
ParenInside(s) ==
    SubSeq(s, 1, Len(s) - Len(NoSymbol(s)))
        \o <<"(">> \o Tail(NoSymbol(s)) \o <<")">>
ParenOutside(s) ==
    <<"(">> \o SubSeq(s, 1, Len(s) - Len(NoSymbol(s)))
        \o Tail(NoSymbol(s)) \o <<")">>

\* C4: an amount wrapped in parentheses parses to the same value as the same
\* amount written with a minus sign, for every amount that parses with the
\* minus sign, decimal part or not.
C4_ParenthesesEqualMinus ==
    (pc = "returned" /\ IsMinusAmount(Chars)) =>
        /\ ParseMoney(Str(ParenInside(Chars))) = Return(result)
        /\ ParseMoney(Str(ParenOutside(Chars))) = Return(result)

(***************************************************************************)
(* C5                                                                      *)
(***************************************************************************)
\* s holds a digit
HasDigit(s) == \E i \in 1..Len(s) : s[i] \in Digits

\* C5: for every s without sign marker that parses, "-" + s parses to the
\* negated value, also when s begins with a currency symbol or code.
C5_MinusPrefixNegates ==
    (pc = "returned" /\ HasDigit(Chars)
        /\ \A i \in 1..Len(Chars) : Chars[i] \notin {"-", "(", ")"}) =>
        ParseMoney(Str(<<"-">> \o Chars)) = Return(0 - result)

(***************************************************************************)
(* C6                                                                      *)
(***************************************************************************)
\* three-letter codes, upper and lower case, two of them beginning with R
Codes ==
    {<<"U", "S", "D">>, <<"e", "u", "r">>, <<"R", "U", "B">>, <<"r", "o", "n">>}

\* s is made of digits, separators, sign markers and whitespace only
IsBareAmount(s) ==
    /\ HasDigit(s)
    /\ \A i \in 1..Len(s) :
          s[i] \in Digits \cup {".", ",", "-", "(", ")"} \cup Whitespace

\* C6: a leading or trailing 3-letter code, any letters in any case, is
\* removed: code + " " + a and a + " " + code parse to the value of a.
C6_CurrencyCodeStripped ==
    (pc = "returned" /\ IsBareAmount(Chars)) =>
        \A code \in Codes :
            /\ ParseMoney(Str(code \o <<" ">> \o Chars)) = Return(result)
            /\ ParseMoney(Str(Chars \o <<" ">> \o code)) = Return(result)

(***************************************************************************)
(* C7                                                                      *)
(***************************************************************************)
\* C7: with 3 or more decimal digits the magnitude is
\* I*100 + 10*d1 + d2 + (d3 >= 5 ? 1 : 0), a carry out of 99 going into the
\* integer part, and the sign is applied to the rounded magnitude.
C7_RoundOnThirdDigit ==
    \A sep \in {".", ","} :
        (Ended /\ IsOneKind(Chars, sep) /\ Len(DecDigits(Chars, sep)) >= 3) =>
            /\ pc = "returned"
            /\ result = SignOf(Chars) *
                            (ParseInt(IntDigits(Chars, sep)) * 100
                               + 10 * DigitVal(DecDigits(Chars, sep)[1])
                               + DigitVal(DecDigits(Chars, sep)[2])
                               + (IF DigitVal(DecDigits(Chars, sep)[3]) >= 5
                                  THEN 1 ELSE 0))
            /\ Len(decimalPart) = 2

\* 9.995 has been rounded up into the integer part
C7_Witness ==
    /\ pc = "returned"
    /\ Chars = <<"-", "9", ".", "9", "9", "5">>
    /\ integerPart = <<"1", "0">>
    /\ decimalPart = <<"0", "0">>
    /\ result = -1000

(***************************************************************************)
(* C8                                                                      *)
(***************************************************************************)
\* C8 as stated: with one kind of separator and a number of digits after its
\* last occurrence other than 2 or 3, the separator is a thousands separator
\* and the result is all the digits read as one integer, times 100.
C8_AmbiguousIsThousands ==
    \A sep \in {".", ","} :
        (Ended /\ IsOneKind(Chars, sep)
               /\ Trailing(Chars, sep) \notin {2, 3}) =>
            /\ pc = "returned"
            /\ result = SignOf(Chars) * DigitsValue(Chars) * 100

\* C8 amended: with one kind of separator and a number of digits after its
\* last occurrence other than 2 or 3, the separator is the decimal
\* separator: the digits before its first occurrence are the integer part,
\* the digits after it the decimal part, padded or rounded to two digits.
C8_AmbiguousIsDecimal ==
    \A sep \in {".", ","} :
        (Ended /\ IsOneKind(Chars, sep)
               /\ Trailing(Chars, sep) \notin {2, 3}) =>
            /\ pc = "returned"
            /\ decimalSeparator = sep
            /\ result = SignOf(Chars) *
                            (ParseInt(IntDigits(Chars, sep)) * 100
                               + RoundedCents(DecDigits(Chars, sep)))

\* "1,5059" has been parsed to 151, not to 1505900
C8_Witness ==
    /\ pc = "returned"
    /\ Chars = <<"1", ",", "5", "0", "5", "9">>
    /\ result = 151

(***************************************************************************)
(* C9                                                                      *)
(***************************************************************************)
\* v is not a string, or is empty or whitespace only
IsBlankInput(v) ==
    v.type # "string" \/ \A i \in 1..Len(v.chars) : v.chars[i] \in Whitespace

\* C9: a call with a non-string, empty or whitespace-only argument throws
\* EmptyInput at the first step: no value is returned and no later statement
\* has assigned anything.
C9_BlankIsEmptyInput ==
    (pc \notin {"idle", "start"} /\ moneyString # NoCall
        /\ IsBlankInput(moneyString)) =>
        /\ pc \in {"thrown", "node_done"}
        /\ ErrorKind(error) = "EmptyInput"
        /\ result = Null
        /\ trimmed = <<>> /\ cleanedText = <<>>
        /\ integerPart = <<>> /\ decimalPart = <<>>
        /\ isNegative = FALSE

\* a whitespace-only string has been rejected
C9_Witness ==
    /\ pc = "thrown"
    /\ Chars = <<" ", " ">>
    /\ error = "Empty money string"

(***************************************************************************)
(* C10                                                                     *)
(***************************************************************************)
\* a character that is no digit, separator, sign marker or whitespace
HasLeftover(s) ==
    \E i \in 1..Len(s) :
        s[i] \notin Digits \cup {".", ",", "-", "(", ")"} \cup Whitespace

\* C10: a non-blank input whose cleaned text keeps a character other than
\* digits, separators, sign markers and whitespace, or whose integer or
\* decimal part keeps a non-digit, throws InvalidCharacters and returns no
\* number; the statements after the validation only see digits.
C10_LeftoverIsInvalid ==
    /\ (Ended /\ (HasLeftover(cleanedText) \/ ~IsDigits(integerPart)
                    \/ ~IsDigits(decimalPart))) =>
            /\ pc = "thrown"
            /\ ErrorKind(error) = "InvalidCharacters"
            /\ result = Null
    /\ pc \in {"normalize", "combine", "returned"} =>
            IsDigits(integerPart) /\ IsDigits(decimalPart)

\* text left over in the decimal part has been rejected
C10_Witness ==
    /\ pc = "thrown"
    /\ Chars = <<"5", ".", "x">>
    /\ error = "Invalid characters in decimal part"
    /\ result = Null

(***************************************************************************)
(* C11                                                                     *)
(***************************************************************************)
\* C11: when the node has built its output, exactly one of budgetParsed and
\* parseError is non-null.  If parseMoney returned, budgetParsed is the
\* integer, budgetFormatted a string and parseError null; if it threw,
\* budgetParsed and budgetFormatted are null and parseError is the message;
\* if Answers.Budget is missing or empty the message is "Budget field is
\* missing or empty" and parseMoney has not been entered.
C11_NodeOutput ==
    pc = "node_done" =>
        /\ (output.budgetParsed # JsNull) # (output.parseError # Null)
        /\ output.budgetOriginal = budgetString
        /\ IF ~Truthy(budgetString)
           THEN /\ output.parseError = "Budget field is missing or empty"
                /\ output.budgetParsed = JsNull
                /\ output.budgetFormatted = NullText
                /\ moneyString = NoCall
                /\ trimmed = <<>> /\ cleanedText = <<>>
                /\ result = Null /\ error = Null
           ELSE /\ moneyString = budgetString
                /\ IF ParseMoney(budgetString).ok
                   THEN /\ output.budgetParsed =
                               Num(ParseMoney(budgetString).value)
                        /\ output.budgetFormatted.type = "string"
                        /\ output.parseError = Null
                   ELSE /\ output.budgetParsed = JsNull
                        /\ output.budgetFormatted = NullText
                        /\ output.parseError = ParseMoney(budgetString).error

\* the node has parsed "$1,505.59"
C11_Witness ==
    /\ pc = "node_done"
    /\ budgetString = Str(<<"$", "1", ",", "5", "0", "5", ".", "5", "9">>)
    /\ output.budgetParsed = Num(150559)
    /\ output.budgetFormatted = Str(<<"1", "5", "0", "5", ".", "5", "9">>)
    /\ output.parseError = Null

(***************************************************************************)
(* C12                                                                     *)
(***************************************************************************)
\* t is an amount with decimal separator dec: digits, or digits grouped in
\* threes by thou, then optionally dec and at most 2 digits
IsAmount(t, thou, dec) ==
    LET i    == IndexOf(t, dec)
        intp == IF i = -1 THEN t ELSE SubSeq(t, 1, i)
        decp == IF i = -1 THEN <<>> ELSE Substring(t, i + 1)
    IN  /\ (intp # <<>> /\ IsDigits(intp)) \/ IsGroupedInt(intp, thou)
        /\ IsDigits(decp)
        /\ Len(decp) <= 2

\* the amount rounded to whole major units, a half going up
WholeUnits(t, dec) ==
    LET i    == IndexOf(t, dec)
        intp == IF i = -1 THEN t ELSE SubSeq(t, 1, i)
        decp == IF i = -1 THEN <<>> ELSE Substring(t, i + 1)
    IN  DigitsValue(intp)
            + (IF decp # <<>> /\ DigitVal(decp[1]) >= 5 THEN 1 ELSE 0)

\* the argument of the parseBudget call that has ended
BudgetChars == budgetString.chars

\* s without a leading currency symbol or code and the blank after it
RECURSIVE AmountText(_)
AmountText(s) ==
    IF s # <<>> /\ Head(s) \in CurrencySymbols \cup Letters \cup Whitespace
    THEN AmountText(Tail(s))
    ELSE s

\* C12: parseBudget returns an amount in US or EU convention (optional
\* symbol, thousands groups, at most 2 decimal digits) rounded to the nearest
\* whole major unit (a half going up); a lone kind of separator followed by
\* more than 2 digits is a thousands separator; a blank or non-string
\* argument and a string without any digit raise an error.
C12_ParseBudgetRounds ==
    pc = "budget_done" =>
        /\ \A dec \in {".", ","} :
              (budgetString.type = "string"
                 /\ IsAmount(AmountText(BudgetChars), Other(dec), dec)) =>
                  budgetResult =
                      Return(WholeUnits(AmountText(BudgetChars), dec))
        /\ \A sep \in {".", ","} :
              (budgetString.type = "string"
                 /\ IsOneKind(BudgetChars, sep)
                 /\ NoMinus(NoSymbol(BudgetChars)) = NoSymbol(BudgetChars)
                 /\ Trailing(BudgetChars, sep) > 2) =>
                  budgetResult = Return(DigitsValue(BudgetChars))
        /\ IsBlankInput(budgetString) =>
              budgetResult = Throw("Invalid budget string")
        /\ (~IsBlankInput(budgetString) /\ ~HasDigit(BudgetChars)) =>
              budgetResult = Throw("Could not parse budget value")

\* the EU form of 1505.59 has been rounded to 1506
C12_Witness ==
    /\ pc = "budget_done"
    /\ BudgetChars = <<"€", "1", ".", "5", "0", "5", ",", "5", "9">>
    /\ budgetResult = Return(1506)

(***************************************************************************)
(* C13                                                                     *)
(***************************************************************************)
\* C13: the major.minor rendering of every value parseMoney returns parses
\* back with parseMoney to that value, for the rendering the line handler
\* prints and for the one the node stores in budgetFormatted.
C13_FormatRoundTrip ==
    /\ pc = "returned" => ParseMoney(Str(Format(result))) = Return(result)
    /\ (pc = "node_done" /\ output.parseError = Null) =>
            ParseMoney(output.budgetFormatted)
                = Return(output.budgetParsed.value)

\* the node has rendered -105 as "-1.05", cents padded and sign kept
C13_Witness ==
    /\ pc = "node_done"
    /\ output.budgetParsed = Num(-105)
    /\ output.budgetFormatted = Str(<<"-", "1", ".", "0", "5">>)
    /\ ParseMoney(output.budgetFormatted) = Return(-105)

(***************************************************************************)
(* C14                                                                     *)
(***************************************************************************)
\* s is empty or has only separators, whitespace and sign markers
OnlyMarks(s) ==
    \A i \in 1..Len(s) : s[i] \in {".", ",", "-", "(", ")"} \cup Whitespace

\* the kind of separator that occurs last in s, Null when s has none
LastSeparator(s) ==
    IF ~Includes(s, ".") /\ ~Includes(s, ",") THEN Null
    ELSE IF LastIndexOf(s, ".") > LastIndexOf(s, ",") THEN "." ELSE ","

\* after the first occurrence of the separator that occurs last, s has only
\* that separator and whitespace
CleanTail(s) ==
    LET d == LastSeparator(s)
    IN  d = Null
            \/ \A i \in (IndexOf(s, d) + 2)..Len(s) :
                    s[i] \in {d} \cup Whitespace

\* C14 as stated: every non-blank input whose cleaned text has no digit and
\* only separators, whitespace and sign markers is parsed to 0.
C14_NoDigitIsZero ==
    (Ended /\ ~IsBlankInput(moneyString) /\ OnlyMarks(cleanedText)) =>
        /\ pc = "returned"
        /\ result = 0

\* C14 amended: such an input is parsed to 0, with integer part "0" and
\* decimal part "00", when no sign marker and no separator of the other kind
\* follows the first occurrence of the separator that occurs last; otherwise
\* the call throws InvalidCharacters for the decimal part.
C14_NoDigitIsZeroOrInvalid ==
    (Ended /\ ~IsBlankInput(moneyString) /\ OnlyMarks(cleanedText)) =>
        IF CleanTail(cleanedText)
        THEN /\ pc = "returned"
             /\ result = 0
             /\ integerPart = <<"0">>
             /\ decimalPart = <<"0", "0">>
        ELSE /\ pc = "thrown"
             /\ error = "Invalid characters in decimal part"

\* "()" has been parsed to 0
C14_Witness ==
    /\ pc = "returned"
    /\ Chars = <<"(", ")">>
    /\ cleanedText = <<"(", ")">>
    /\ isNegative
    /\ result = 0

====
